---- MODULE Spec2Model ----
(***************************************************************************)
(* Model of src/src/main.rs: the two-pass GPU simulation-and-capture loop  *)
(* of the comparative visualizer (run), with the GPU queue as a second     *)
(* process that executes the submitted commands in submission order.       *)
(*                                                                         *)
(* Number representation.  World coordinates are integer-valued f32; the   *)
(* perspective projection is computed over exact rationals (num/den), in   *)
(* the order the code computes it.  The f32 flags (data_type, active_flag, *)
(* dilation_mode) are stored in halves: HALF stands for 0.5, 2*HALF for    *)
(* 1.0.  u8 colour channels are integers in 0..255.                        *)
(***************************************************************************)
EXTENDS Integers, Sequences, FiniteSets, TLC

\* ------------------------------------------------------------------ bounds
\* const NUM_STARS (100_000 in the source), scaled down.
NUM_STARS == 2
\* const FRAMES_PER_MODE (150 in the source), scaled down.
FRAMES_PER_MODE == 2
\* const SIM_STEPS_PER_FRAME (5 in the source), scaled down.
SIM_STEPS_PER_FRAME == 2
\* The largest number of stars and the largest scaled-down workgroup size
\* of the builds whose dispatch is checked.
MAX_DISPATCH_STARS == 4
MAX_WORKGROUP_SIZE == 3

\* --------------------------------------------------------------- constants
HALF == 1
\* const WORKGROUP_SIZE: u32 = 256
WORKGROUP_SIZE == 256
\* const NUM_STARS: u32 = 100_000, as the source has it.
NUM_STARS_SOURCE == 100000
\* The largest integer of the model; u32::MAX is above it.
INT_MAX == 2147483647
TYPE_A == 0 * HALF
TYPE_B == 2 * HALF
NUM_PASSES == 2
fov == 800
camera_z == -1000
NEAR_PLANE == 10
IMG_SIZE == 1024
SCREEN_CENTER == 512
U8_MAX == 255
RED_A == 200
BLUE_B == 255
GREEN_ACTIVE == 150
RED_CHRONO == 50
PAD_WIDTH == 3

\* ------------------------------------------------------------ data types
\* struct Star
Star(x, y, z, vx, vy, vz, mass, data_type, time_debt, active_flag) ==
    [x |-> x, y |-> y, z |-> z, vx |-> vx, vy |-> vy, vz |-> vz,
     mass |-> mass, data_type |-> data_type, time_debt |-> time_debt,
     active_flag |-> active_flag]

\* struct GalaxyState
GalaxyState(time_seed, dilation_mode) ==
    [time_seed |-> time_seed, dilation_mode |-> dilation_mode,
     padding2 |-> 0, padding3 |-> 0]

\* A buffer created without contents is zero-filled.
ZeroStar == Star(0, 0, 0, 0, 0, 0, 0, 0, 0, 0)

\* ------------------------------------------------------- f32 arithmetic
\* A rational num/den with den > 0.
Rat(n, d) == [num |-> n, den |-> d]

\* fov / rel_z
RatDiv(a, b) == IF b > 0 THEN Rat(a, b) ELSE Rat(-a, -b)

\* star.x * factor
RatMulInt(r, k) == Rat(r.num * k, r.den)

\* ... + 512.0
RatAddInt(r, k) == Rat(r.num + k * r.den, r.den)

\* screen_x >= 0.0
RatGeInt(r, k) == r.num >= k * r.den

\* screen_x < 1024.0
RatLtInt(r, k) == r.num < k * r.den

\* Mutant of AsU32: rounds to the nearest integer instead of truncating.
RoundedU32(r) ==
    LET t == (2 * r.num + r.den) \div (2 * r.den)
    IN  IF t < 0 THEN 0 ELSE t

\* `screen_x as u32`: truncation toward zero, a negative value gives 0 (the
\* values of the model stay far below the upper end of u32).
AsU32(r) ==
    LET t == IF r.num >= 0 THEN r.num \div r.den ELSE -((-r.num) \div r.den)
    IN  IF t < 0 THEN 0 ELSE t

\* Mutant of SaturatingAdd: u8::wrapping_add.
WrappingAdd(a, b) == (a + b) % (U8_MAX + 1)

\* u8::saturating_add
SaturatingAdd(a, b) == IF a + b > U8_MAX THEN U8_MAX ELSE a + b

\* ------------------------------------------------------------- the image
\* RgbImage::new(1024, 1024): every pixel black.  The image is kept as the
\* function from the pixels written so far to their colour <<r, g, b>>; a
\* pixel outside its domain is black.
BlankImage == [p \in {} |-> <<0, 0, 0>>]

\* The coordinates RgbImage accepts; get_pixel_mut panics outside them.
InBounds(p) == p[1] \in 0..(IMG_SIZE - 1) /\ p[2] \in 0..(IMG_SIZE - 1)

GetPixel(image, p) == IF p \in DOMAIN image THEN image[p] ELSE <<0, 0, 0>>

PutPixel(image, p, v) ==
    [q \in DOMAIN image \cup {p} |-> IF q = p THEN v ELSE image[q]]

\* --------------------------------------------------------- the projector
\* let rel_z = star.z - camera_z;
RelZ(star) == star.z - camera_z

\* Mutant of Visible: the near plane itself is let through (rel_z >= 10.0).
VisibleOnNearPlane(star) == RelZ(star) >= NEAR_PLANE

\* if rel_z > 10.0
Visible(star) == RelZ(star) > NEAR_PLANE

\* let factor = fov / rel_z;
Factor(star) == RatDiv(fov, RelZ(star))

\* let screen_x = star.x * factor + 512.0;
ScreenX(star) == RatAddInt(RatMulInt(Factor(star), star.x), SCREEN_CENTER)

\* let screen_y = star.y * factor + 512.0;
ScreenY(star) == RatAddInt(RatMulInt(Factor(star), star.y), SCREEN_CENTER)

\* Mutant of OnScreen: the tests against 0.0 are left out.
OnScreenNoLowerBound(star) ==
    /\ RatLtInt(ScreenX(star), IMG_SIZE)
    /\ RatLtInt(ScreenY(star), IMG_SIZE)

\* if screen_x >= 0.0 && screen_x < 1024.0 && screen_y >= 0.0 && screen_y < 1024.0
OnScreen(star) ==
    /\ RatGeInt(ScreenX(star), 0) /\ RatLtInt(ScreenX(star), IMG_SIZE)
    /\ RatGeInt(ScreenY(star), 0) /\ RatLtInt(ScreenY(star), IMG_SIZE)

\* (screen_x as u32, screen_y as u32)
PixelOf(star) == <<AsU32(ScreenX(star)), AsU32(ScreenY(star))>>

\* Mutant of BaseColor: the channel is assigned instead of accumulated.
BaseColorAssigned(pixel, star) ==
    IF star.data_type < HALF
    THEN [pixel EXCEPT ![1] = RED_A]
    ELSE [pixel EXCEPT ![3] = BLUE_B]

\* BASE COLORS: red for TYPE_A, blue for TYPE_B (channel 1 is pixel[0]).
BaseColor(pixel, star) ==
    IF star.data_type < HALF
    THEN [pixel EXCEPT ![1] = SaturatingAdd(@, RED_A)]
    ELSE [pixel EXCEPT ![3] = SaturatingAdd(@, BLUE_B)]

\* Mutant of Glow: the red bonus is given in both modes.
GlowInBothModes(pixel, star, is_chronoturin) ==
    IF star.active_flag > HALF
    THEN [pixel EXCEPT ![2] = SaturatingAdd(@, GREEN_ACTIVE),
                       ![1] = SaturatingAdd(@, RED_CHRONO)]
    ELSE pixel

\* EFFICIENCY VISUALIZER: green for an active star, and red in Chronoturin.
Glow(pixel, star, is_chronoturin) ==
    IF star.active_flag > HALF
    THEN LET g == [pixel EXCEPT ![2] = SaturatingAdd(@, GREEN_ACTIVE)]
         IN  IF is_chronoturin
             THEN [g EXCEPT ![1] = SaturatingAdd(@, RED_CHRONO)]
             ELSE g
    ELSE pixel

\* The colour the star leaves in the pixel it is drawn at.
Shade(pixel, star, is_chronoturin) ==
    Glow(BaseColor(pixel, star), star, is_chronoturin)

\* The body of `for star in stars`.
DrawStar(image, star, is_chronoturin) ==
    IF Visible(star)
    THEN IF OnScreen(star)
         THEN PutPixel(image, PixelOf(star),
                       Shade(GetPixel(image, PixelOf(star)), star, is_chronoturin))
         ELSE image
    ELSE image

\* ------------------------------------------------------- pass settings
\* let is_chronoturin = pass == 1;
IsChronoturin(p) == p = 1

\* let mode_name = if is_chronoturin { "CHRONOTURIN" } else { "NEWTONIAN" };
ModeName(p) == IF IsChronoturin(p) THEN "CHRONOTURIN" ELSE "NEWTONIAN"

\* Mutant of FilePrefix: the two prefixes are swapped.
FilePrefixSwapped(p) == IF IsChronoturin(p) THEN "newton" ELSE "chrono"

\* let file_prefix = if is_chronoturin { "chrono" } else { "newton" };
FilePrefix(p) == IF IsChronoturin(p) THEN "chrono" ELSE "newton"

\* let dilation_val = if is_chronoturin { 1.0 } else { 0.0 };
DilationVal(p) == IF IsChronoturin(p) THEN 2 * HALF ELSE 0 * HALF

\* The decimal digits of n, most significant first.
RECURSIVE Digits(_)
Digits(n) == IF n < 10 THEN <<n>> ELSE Append(Digits(n \div 10), n % 10)

\* {:03}: the digits, zero-padded on the left to at least three.
RECURSIVE ZeroPad(_, _)
ZeroPad(ds, width) == IF Len(ds) >= width THEN ds ELSE ZeroPad(<<0>> \o ds, width)

\* format!("{}_{:03}.png", file_prefix, frame)
Filename(prefix, f) == <<prefix, "_">> \o ZeroPad(Digits(f), PAD_WIDTH) \o <<".png">>

\* ---------------------------------------------------- initial conditions
\* `rng` (rand::thread_rng(), created once before the pass loop) is a
\* deterministic generator behind an unknown seed: a state in 0..RNG_MOD-1, a
\* full-period step, and the high bit of the state as the value drawn.
RNG_MOD == 16

RNG_MUL == 5

RNG_INC == 3

RngStates == 0..(RNG_MOD - 1)

\* The state of the generator after one more value has been drawn.
RngNext(s) == (RNG_MUL * s + RNG_INC) % RNG_MOD

\* The value drawn when the generator reaches state s: 0 or 1.
RngOut(s) == s \div (RNG_MOD \div 2)

\* The state of the generator after n values have been drawn.
RECURSIVE RngAfter(_, _)
RngAfter(s, n) == IF n = 0 THEN s ELSE RngAfter(RngNext(s), n - 1)

\* rng.gen(), rng.gen_range(..), rng.gen_range(..), rng.gen_bool(0.5)
DRAWS_PER_STAR == 4

\* r = 300 * sqrt(u), theta, phi, and x, y, z from them: u = 0 is the centre
\* of the sphere, the other positions lie at radius 150.
InitPosition(u, theta, phi) ==
    IF u = 0 THEN <<0, 0, 0>>
    ELSE <<(IF theta = 0 THEN 120 ELSE -120), (IF phi = 0 THEN -90 ELSE 90), 0>>

\* The x, y, z, data_type drawn for one star by a generator in state s.
SampleStar(s) ==
    LET u     == RngOut(RngAfter(s, 1))
        theta == RngOut(RngAfter(s, 2))
        phi   == RngOut(RngAfter(s, 3))
        coin  == RngOut(RngAfter(s, 4))
        pos   == InitPosition(u, theta, phi)
    IN  <<pos[1], pos[2], pos[3], IF coin = 1 THEN TYPE_A ELSE TYPE_B>>


\* initial_data.push(Star { x, y, z, vx: 0.0, ..., mass: 1.0, data_type, time_debt: 0.0, active_flag: 0.0 })
InitStar(d) == Star(d[1], d[2], d[3], 0, 0, 0, 1, d[4], 0, 0)

\* -------------------------------------------------------------- the kernel
\* shader.wgsl is not part of the sources at hand.  The kernel is modelled by
\* its contract: one invocation per star, which rewrites the position, the
\* velocity, time_debt and active_flag of its own star and nothing else.
\* A dispatch either integrates every star ("all") or only the stars of the
\* core ("core"); a star that is integrated moves between two depths.
KernelChoices == {"all", "core"}

KERNEL_DZ == 100

Kernel(star, params, k) ==
    LET worked == k = "all" \/ (star.x = 0 /\ star.y = 0)
        z2 == IF star.z = 0 THEN KERNEL_DZ ELSE 0
    IN  IF worked
        THEN [star EXCEPT !.z = z2, !.vz = z2 - star.z,
                          !.active_flag = 2 * HALF]
        ELSE [star EXCEPT !.vz = 0, !.time_debt = params.dilation_mode,
                          !.active_flag = 0 * HALF]

\* ------------------------------------------------------------------ state
VARIABLES
    pc,              \* where `run` is
    pass,            \* for pass in 0..2
    frame,           \* for frame in 0..FRAMES_PER_MODE
    step,            \* for _ in 0..SIM_STEPS_PER_FRAME: iterations done
    initial_data,    \* Vec<Star>
    storage_buffer,  \* contents of "Star Storage"
    uniform_buffer,  \* contents of "Galaxy State"
    readback_buffer, \* contents of "Readback Buffer"
    map_state,       \* of the readback buffer: "unmapped", "pending", "mapped"
    queue,           \* commands submitted to the GPU queue and not yet executed
    rx,              \* what the map callback left in the channel
    rng,             \* state of the thread's random generator
    rng_seed,        \* history: the state `rng` was created in
    steps_per_frame, \* the SIM_STEPS_PER_FRAME the program was built with
    frames_per_mode, \* the FRAMES_PER_MODE the program was built with
    num_stars,       \* the NUM_STARS the program was built with
    workgroup_size,  \* the WORKGROUP_SIZE the program was built with
    invoked,         \* history: kernel invocations per star, last dispatch
    img,             \* RgbImage of the frame being rendered
    star_idx,        \* position of `for star in stars` (1-based)
    saved,           \* the file names img.save has written, in order
    stdout,          \* the lines printed
    stderr,          \* panic messages
    steps_applied,   \* history: kernel steps executed on storage_buffer
    steps_copied,    \* history: steps_applied at the last copy executed
    frames_begun,    \* history: the <<pass, frame>> of every frame begun
    ops,             \* history: what the current frame has done so far
    skipped          \* history: the <<pass, frame>> whose readback failed

vars == <<pc, pass, frame, step, initial_data, storage_buffer, uniform_buffer,
          readback_buffer, map_state, queue, rx, img, star_idx, saved, stdout,
          stderr, steps_applied, steps_copied, frames_begun, ops, skipped,
          rng, rng_seed, steps_per_frame, frames_per_mode, num_stars,
          workgroup_size, invoked>>

rngVars == <<rng, rng_seed>>

config == <<steps_per_frame, frames_per_mode, num_stars, workgroup_size>>

history == <<frames_begun, ops, skipped>>

cpuVars == <<pc, pass, frame, step, initial_data, uniform_buffer, map_state,
             rx, img, star_idx, saved, stdout, stderr, history, rngVars, config>>

\* The draws of `for _ in 0..NUM_STARS` by a generator in state s.
InitDraws(s) ==
    [i \in 1..num_stars |-> SampleStar(RngAfter(s, DRAWS_PER_STAR * (i - 1)))]

\* (num_stars + workgroup_size - 1) / workgroup_size, the first argument of
\* dispatch_workgroups.
Workgroups(n, w) == (n + w - 1) \div w

\* ---------------------------------------------------------------- Init
\* The state on entry to `run`: nothing printed, no buffer created yet.
Init ==
    /\ pc = "start"
    /\ pass = 0 /\ frame = 0 /\ step = 0
    /\ initial_data = <<>>
    /\ storage_buffer = <<>>
    /\ uniform_buffer = GalaxyState(0, 0)
    /\ readback_buffer = <<>>
    /\ map_state = "unmapped"
    /\ queue = <<>>
    /\ rx = "empty"
    /\ img = BlankImage
    /\ star_idx = 1
    /\ saved = <<>>
    /\ stdout = <<>>
    /\ stderr = <<>>
    /\ steps_applied = 0
    /\ steps_copied = 0
    /\ frames_begun = <<>>
    /\ ops = <<>>
    /\ skipped = {}
    /\ rng = 0
    /\ rng_seed = 0
    /\ steps_per_frame = SIM_STEPS_PER_FRAME
    /\ frames_per_mode = FRAMES_PER_MODE
    /\ num_stars = NUM_STARS
    /\ workgroup_size = WORKGROUP_SIZE
    /\ invoked = <<>>

\* --------------------------------------------------------- start of run
\* println!(banner); request_adapter(..).await succeeds.
RequestAdapter ==
    /\ pc = "start"
    /\ stdout' = Append(stdout, <<"banner">>)
    /\ pc' = "device"
    /\ UNCHANGED <<pass, frame, step, initial_data, storage_buffer,
                   uniform_buffer, readback_buffer, map_state, queue, rx, img,
                   star_idx, saved, stderr, steps_applied, steps_copied>>
    /\ UNCHANGED history
    /\ UNCHANGED <<rngVars, config, invoked>>

\* request_adapter(..).await.expect("No GPU") panics.
NoAdapter ==
    /\ pc = "start"
    /\ stdout' = Append(stdout, <<"banner">>)
    /\ stderr' = Append(stderr, "No GPU")
    /\ pc' = "panicked"
    /\ UNCHANGED <<pass, frame, step, initial_data, storage_buffer,
                   uniform_buffer, readback_buffer, map_state, queue, rx, img,
                   star_idx, saved, steps_applied, steps_copied>>
    /\ UNCHANGED history
    /\ UNCHANGED <<rngVars, config, invoked>>

\* request_device(..).await succeeds; rand::thread_rng() hands out the
\* generator, seeded by the system; `for pass in 0..2` starts.
RequestDevice ==
    /\ pc = "device"
    /\ pass' = 0
    /\ pc' = "for_pass"
    /\ UNCHANGED <<frame, step, initial_data, storage_buffer, uniform_buffer,
                   readback_buffer, map_state, queue, rx, img, star_idx, saved,
                   stdout, stderr, steps_applied, steps_copied>>
    /\ UNCHANGED history
    /\ \E s \in RngStates : rng' = s /\ rng_seed' = s
    /\ UNCHANGED <<config, invoked>>

\* request_device(..).await.expect("No Device") panics.
NoDevice ==
    /\ pc = "device"
    /\ stderr' = Append(stderr, "No Device")
    /\ pc' = "panicked"
    /\ UNCHANGED <<pass, frame, step, initial_data, storage_buffer,
                   uniform_buffer, readback_buffer, map_state, queue, rx, img,
                   star_idx, saved, stdout, steps_applied, steps_copied>>
    /\ UNCHANGED history
    /\ UNCHANGED <<rngVars, config, invoked>>

\* ------------------------------------------------------------- one pass
\* Mutant of CreateBufferInit: the storage buffer is created once and kept
\* for the second pass.
KeptBufferInit(contents) ==
    IF storage_buffer = <<>> THEN contents ELSE storage_buffer

\* device.create_buffer_init(contents: bytemuck::cast_slice(&initial_data))
CreateBufferInit(contents) == contents

\* The head of `for pass in 0..2` and the pass set-up: the initial data is
\* drawn, the three buffers are created, `for frame` starts.
BeginPass ==
    /\ pc = "for_pass"
    /\ pass < NUM_PASSES
    /\ initial_data' = [i \in 1..num_stars |-> InitStar(InitDraws(rng)[i])]
    /\ storage_buffer' = CreateBufferInit(initial_data')
    /\ rng' = RngAfter(rng, DRAWS_PER_STAR * num_stars)
    /\ UNCHANGED <<rng_seed, config, invoked>>
    /\ uniform_buffer' = GalaxyState(0, DilationVal(pass))
    /\ readback_buffer' = [i \in 1..num_stars |-> ZeroStar]
    /\ map_state' = "unmapped"
    /\ stdout' = Append(stdout, <<"start", pass + 1, ModeName(pass)>>)
    /\ frame' = 0
    /\ steps_applied' = 0
    /\ steps_copied' = 0
    /\ pc' = "for_frame"
    /\ UNCHANGED <<pass, step, queue, rx, img, star_idx, saved, stderr>>
    /\ UNCHANGED history

\* `for pass in 0..2` is exhausted: println!("Simulation Complete.").
Complete ==
    /\ pc = "for_pass"
    /\ pass >= NUM_PASSES
    /\ stdout' = Append(stdout, <<"complete">>)
    /\ pc' = "done"
    /\ UNCHANGED <<pass, frame, step, initial_data, storage_buffer,
                   uniform_buffer, readback_buffer, map_state, queue, rx, img,
                   star_idx, saved, stderr, steps_applied, steps_copied>>
    /\ UNCHANGED history
    /\ UNCHANGED <<rngVars, config, invoked>>

\* Mutant of FrameInRange: the range is taken inclusive (0..=FRAMES_PER_MODE).
FrameInRangeInclusive == frame <= frames_per_mode

\* `frame` is in 0..FRAMES_PER_MODE
FrameInRange == frame < frames_per_mode

\* The head of `for frame in 0..FRAMES_PER_MODE`: a frame starts.
BeginFrame ==
    /\ pc = "for_frame"
    /\ FrameInRange
    /\ step' = 0
    /\ pc' = "for_step"
    /\ UNCHANGED <<pass, frame, initial_data, storage_buffer, uniform_buffer,
                   readback_buffer, map_state, queue, rx, img, star_idx, saved,
                   stdout, stderr, steps_applied, steps_copied>>
    /\ frames_begun' = Append(frames_begun, <<pass, frame>>)
    /\ ops' = <<>>
    /\ UNCHANGED skipped
    /\ UNCHANGED <<rngVars, config, invoked>>

\* `for frame` is exhausted: the pass ends, its buffers are dropped.
EndPass ==
    /\ pc = "for_frame"
    /\ ~FrameInRange
    /\ pass' = pass + 1
    /\ pc' = "for_pass"
    /\ UNCHANGED <<frame, step, initial_data, storage_buffer, uniform_buffer,
                   readback_buffer, map_state, queue, rx, img, star_idx, saved,
                   stdout, stderr, steps_applied, steps_copied>>
    /\ UNCHANGED history
    /\ UNCHANGED <<rngVars, config, invoked>>

\* ------------------------------------------------------------ one frame
\* A command as it sits in the queue.
Command(kind) == [kind |-> kind, pass |-> pass, frame |-> frame]

\* Mutant of DispatchWorkgroups: the division is not rounded up.
DispatchWorkgroupsFloor == num_stars \div workgroup_size

\* The first argument of compute_pass.dispatch_workgroups(.., 1, 1).
DispatchWorkgroups == Workgroups(num_stars, workgroup_size)

\* The command of one compute pass: the kernel over that many workgroups.
Dispatch ==
    [kind |-> "dispatch", pass |-> pass, frame |-> frame,
     workgroups |-> DispatchWorkgroups]

\* One iteration of `for _ in 0..SIM_STEPS_PER_FRAME`: a compute pass that
\* dispatches the kernel is encoded and submitted.
SubmitStep ==
    /\ pc = "for_step"
    /\ step < steps_per_frame
    /\ queue' = Append(queue, Dispatch)
    /\ step' = step + 1
    /\ UNCHANGED <<pc, pass, frame, initial_data, storage_buffer,
                   uniform_buffer, readback_buffer, map_state, rx, img,
                   star_idx, saved, stdout, stderr, steps_applied,
                   steps_copied>>
    /\ ops' = Append(ops, "dispatch")
    /\ UNCHANGED <<frames_begun, skipped>>
    /\ UNCHANGED <<rngVars, config, invoked>>

\* Readback: copy_buffer_to_buffer(storage -> readback) is submitted.
SubmitCopy ==
    /\ pc = "for_step"
    /\ step >= steps_per_frame
    /\ queue' = Append(queue, Command("copy"))
    /\ pc' = "map"
    /\ UNCHANGED <<pass, frame, step, initial_data, storage_buffer,
                   uniform_buffer, readback_buffer, map_state, rx, img,
                   star_idx, saved, stdout, stderr, steps_applied,
                   steps_copied>>
    /\ ops' = Append(ops, "copy")
    /\ UNCHANGED <<frames_begun, skipped>>
    /\ UNCHANGED <<rngVars, config, invoked>>

\* let (tx, rx) = channel(); buffer_slice.map_async(Read, callback)
MapAsync ==
    /\ pc = "map"
    /\ rx' = "empty"
    /\ map_state' = "pending"
    /\ pc' = "poll"
    /\ UNCHANGED <<pass, frame, step, initial_data, storage_buffer,
                   uniform_buffer, readback_buffer, queue, img, star_idx,
                   saved, stdout, stderr, steps_applied, steps_copied>>
    /\ ops' = Append(ops, "map")
    /\ UNCHANGED <<frames_begun, skipped>>
    /\ UNCHANGED <<rngVars, config, invoked>>

\* What the map request can come to: the callback is called with Ok(()),
\* called with an error, or dropped without being called.
MapResults == {"Ok", "Err", "Dropped"}

\* The state the map request leaves the buffer in: mapped when the callback
\* got Ok(()); otherwise the request is over (the callback was called with
\* the error, or destroyed together with the request) and nothing is mapped.
MapStateAfter(r) == IF r = "Ok" THEN "mapped" ELSE "unmapped"

\* Mutant of PollReady: Maintain::Poll, which does not wait for the queue.
PollWithoutWaiting == TRUE

\* device.poll(Maintain::Wait) returns once everything submitted is done.
PollReady == queue = <<>>

\* device.poll(wgpu::Maintain::Wait): blocks until the queue is idle, then
\* resolves the map request.
Poll ==
    /\ pc = "poll"
    /\ PollReady
    /\ \E r \in MapResults :
          /\ rx' = r
          /\ map_state' = MapStateAfter(r)
    /\ pc' = "recv"
    /\ UNCHANGED <<pass, frame, step, initial_data, storage_buffer,
                   uniform_buffer, readback_buffer, queue, img, star_idx,
                   saved, stdout, stderr, steps_applied, steps_copied>>
    /\ ops' = Append(ops, "wait")
    /\ UNCHANGED <<frames_begun, skipped>>
    /\ UNCHANGED <<rngVars, config, invoked>>

\* Mutant of RecvMatches: `if let Ok(_)`, which also takes Ok(Err(..)).
RecvMatchesAnyResult == rx \in {"Ok", "Err"}

\* if let Ok(Ok(())) = rx.recv()
RecvMatches == rx = "Ok"

\* rx.recv() is Ok(Ok(())): get_mapped_range, RgbImage::new(1024, 1024).
RecvOk ==
    /\ pc = "recv"
    /\ RecvMatches
    /\ img' = BlankImage
    /\ star_idx' = 1
    /\ pc' = "raster"
    /\ UNCHANGED <<pass, frame, step, initial_data, storage_buffer,
                   uniform_buffer, readback_buffer, map_state, queue, rx,
                   saved, stdout, stderr, steps_applied, steps_copied>>
    /\ ops' = Append(ops, "render")
    /\ UNCHANGED <<frames_begun, skipped>>
    /\ UNCHANGED <<rngVars, config, invoked>>

\* Mutant of FrameAfterSkip: the frame whose readback failed is run again.
FrameAfterSkipRetried == frame

\* The frame `for frame` goes on with when the body of the `if let` was
\* skipped.
FrameAfterSkip == frame + 1

\* rx.recv() is anything else: the body of the `if let` is skipped.
RecvSkip ==
    /\ pc = "recv"
    /\ ~RecvMatches
    /\ frame' = FrameAfterSkip
    /\ pc' = "for_frame"
    /\ UNCHANGED <<pass, step, initial_data, storage_buffer, uniform_buffer,
                   readback_buffer, map_state, queue, rx, img, star_idx, saved,
                   stdout, stderr, steps_applied, steps_copied>>
    /\ skipped' = skipped \cup {<<pass, frame>>}
    /\ UNCHANGED <<frames_begun, ops>>
    /\ UNCHANGED <<rngVars, config, invoked>>

\* let stars: &[Star] = bytemuck::cast_slice(&data);
MappedStars == readback_buffer

\* One iteration of `for star in stars`.
RasterStar ==
    /\ pc = "raster"
    /\ star_idx <= Len(MappedStars)
    /\ img' = DrawStar(img, MappedStars[star_idx], IsChronoturin(pass))
    /\ star_idx' = star_idx + 1
    /\ UNCHANGED <<pc, pass, frame, step, initial_data, storage_buffer,
                   uniform_buffer, readback_buffer, map_state, queue, rx,
                   saved, stdout, stderr, steps_applied, steps_copied>>
    /\ UNCHANGED history
    /\ UNCHANGED <<rngVars, config, invoked>>

\* Mutant of BufferUnmap: readback_buffer.unmap() is left out.
UnmapForgotten == map_state

\* readback_buffer.unmap()
BufferUnmap == "unmapped"

\* The loop is over: drop(data); readback_buffer.unmap();
Unmap ==
    /\ pc = "raster"
    /\ star_idx > Len(MappedStars)
    /\ map_state' = BufferUnmap
    /\ pc' = "save"
    /\ UNCHANGED <<pass, frame, step, initial_data, storage_buffer,
                   uniform_buffer, readback_buffer, queue, rx, img, star_idx,
                   saved, stdout, stderr, steps_applied, steps_copied>>
    /\ UNCHANGED history
    /\ UNCHANGED <<rngVars, config, invoked>>

\* img.save(&filename) succeeds; the progress line is printed; the frame ends.
Save ==
    /\ pc = "save"
    /\ saved' = Append(saved, Filename(FilePrefix(pass), frame))
    /\ stdout' = Append(stdout, <<"frame", ModeName(pass), frame>>)
    /\ img' = BlankImage
    /\ frame' = frame + 1
    /\ pc' = "for_frame"
    /\ UNCHANGED <<pass, step, initial_data, storage_buffer, uniform_buffer,
                   readback_buffer, map_state, queue, rx, star_idx, stderr,
                   steps_applied, steps_copied>>
    /\ ops' = Append(ops, "save")
    /\ UNCHANGED <<frames_begun, skipped>>
    /\ UNCHANGED <<rngVars, config, invoked>>

\* Mutant of SaveUnwrap: the error of img.save is dropped and the frame loop
\* goes on.
SaveErrorIgnored == "for_frame"

\* Where .unwrap() on the Err of img.save leaves run.
SaveUnwrap == "panicked"

\* img.save(&filename).unwrap() panics.
SaveFails ==
    /\ pc = "save"
    /\ stderr' = Append(stderr, "save")
    /\ pc' = SaveUnwrap
    /\ UNCHANGED <<pass, frame, step, initial_data, storage_buffer,
                   uniform_buffer, readback_buffer, map_state, queue, rx, img,
                   star_idx, saved, stdout, steps_applied, steps_copied>>
    /\ UNCHANGED history
    /\ UNCHANGED <<rngVars, config, invoked>>

\* ---------------------------------------------------------------- the GPU
\* Mutant of CopyBufferToBuffer: the records arrive in reverse order.
CopyReversed(src) == [i \in 1..Len(src) |-> src[Len(src) + 1 - i]]

\* copy_buffer_to_buffer(&storage_buffer, 0, &readback_buffer, 0, size)
CopyBufferToBuffer(src) == src

\* The invocations of a dispatch of `groups` workgroups of w invocations:
\* workgroup g, local invocation l; its global id is the index of its star.
Invocations(groups, w) == (0..(groups - 1)) \X (0..(w - 1))

GlobalId(inv, w) == inv[1] * w + inv[2]

\* How many invocations of the dispatch have the star of index idx.
InvocationsOf(idx, groups, w) ==
    Cardinality({inv \in Invocations(groups, w) : GlobalId(inv, w) = idx})

\* The GPU executes the oldest command of the queue: a dispatch runs the
\* kernel on the star of every invocation (an invocation whose global id is
\* not the index of a star has no star to work on), a copy fills the
\* readback buffer.
GpuExecute ==
    /\ queue # <<>>
    /\ IF Head(queue).kind = "dispatch"
       THEN /\ invoked' =
                  [i \in 1..Len(storage_buffer) |->
                      InvocationsOf(i - 1, Head(queue).workgroups,
                                    workgroup_size)]
            /\ \E k \in KernelChoices :
                  storage_buffer' =
                      [i \in 1..Len(storage_buffer) |->
                          IF invoked'[i] > 0
                          THEN Kernel(storage_buffer[i], uniform_buffer, k)
                          ELSE storage_buffer[i]]
            /\ steps_applied' = steps_applied + 1
            /\ UNCHANGED <<readback_buffer, steps_copied>>
       ELSE /\ readback_buffer' = CopyBufferToBuffer(storage_buffer)
            /\ steps_copied' = steps_applied
            /\ UNCHANGED <<storage_buffer, steps_applied, invoked>>
    /\ queue' = Tail(queue)
    /\ UNCHANGED cpuVars

\* ------------------------------------------------------------------- Spec
Next ==
    \/ RequestAdapter \/ NoAdapter \/ RequestDevice \/ NoDevice
    \/ BeginPass \/ Complete \/ BeginFrame \/ EndPass
    \/ SubmitStep \/ SubmitCopy \/ MapAsync \/ Poll
    \/ RecvOk \/ RecvSkip \/ RasterStar \/ Unmap \/ Save \/ SaveFails
    \/ GpuExecute

Spec == Init /\ [][Next]_vars

\* ------------------------------------------------- the projector alone
\* The projector as a function of the snapshot: the specification below
\* starts where the readback of a frame has just succeeded, with any
\* snapshot the kernel may have left, and runs the rasterization of it.

\* Stars of a snapshot: at the centre (inactive, at the threshold 0.5 and
\* active, of both categories), on the near plane (depth 10) and just
\* beyond it (depth 11), behind the camera, off the image to the right and
\* to the left, and on the left edge with a fractional screen_y.
SnapshotStars ==
    { Star(0, 0, 0, 0, 0, 0, 1, t, 0, a) :
          t \in {TYPE_A, TYPE_B}, a \in {0 * HALF, HALF, 2 * HALF} }
    \cup
    { Star(5, 0, -990, 0, 0, 0, 1, TYPE_A, 0, 2 * HALF),
      Star(0, 0, -990, 0, 0, 0, 1, TYPE_B, 0, 0 * HALF),
      Star(0, 0, -989, 0, 0, 0, 1, TYPE_A, 0, 2 * HALF),
      Star(0, 0, -1100, 0, 0, 0, 1, TYPE_A, 0, 2 * HALF),
      Star(700, 0, 0, 0, 0, 0, 1, TYPE_A, 0, 2 * HALF),
      Star(-641, 0, 0, 0, 0, 0, 1, TYPE_B, 0, 2 * HALF),
      Star(-640, 1, 0, 0, 0, 0, 1, TYPE_B, 0, 2 * HALF) }

InitRaster ==
    /\ pc = "recv"
    /\ pass \in 0..(NUM_PASSES - 1)
    /\ frame = 0
    /\ step = SIM_STEPS_PER_FRAME
    /\ readback_buffer \in [1..NUM_STARS -> SnapshotStars]
    /\ storage_buffer = readback_buffer
    /\ initial_data =
          [i \in 1..NUM_STARS |->
              Star(0, 0, 0, 0, 0, 0, 1, readback_buffer[i].data_type, 0, 0)]
    /\ uniform_buffer = GalaxyState(0, DilationVal(pass))
    /\ map_state = "mapped"
    /\ queue = <<>>
    /\ rx = "Ok"
    /\ img = BlankImage
    /\ star_idx = 1
    /\ saved = <<>>
    /\ stdout = <<>>
    /\ stderr = <<>>
    /\ steps_applied = SIM_STEPS_PER_FRAME
    /\ steps_copied = SIM_STEPS_PER_FRAME
    /\ frames_begun = <<<<pass, 0>>>>
    /\ rng = 0
    /\ rng_seed = 0
    /\ steps_per_frame = SIM_STEPS_PER_FRAME
    /\ frames_per_mode = FRAMES_PER_MODE
    /\ num_stars = NUM_STARS
    /\ workgroup_size = WORKGROUP_SIZE
    /\ invoked = <<>>
    /\ ops = [i \in 1..SIM_STEPS_PER_FRAME |-> "dispatch"] \o <<"copy", "map", "wait">>
    /\ skipped = {}

RasterNext == RecvOk \/ RasterStar \/ Unmap

RasterSpec == InitRaster /\ [][RasterNext]_vars

\* -------------------------------------------- what the claims speak of
Min(a, b) == IF a < b THEN a ELSE b

\* The stars the loop has gone through so far.
Rasterized == SubSeq(MappedStars, 1, star_idx - 1)

\* The star the next iteration of the loop draws.
CurrentStar == MappedStars[star_idx]

\* The image after drawing the stars of a sequence, in order, on `image`.
RECURSIVE Render(_, _, _)
Render(image, stars, is_chronoturin) ==
    IF stars = <<>> THEN image
    ELSE Render(DrawStar(image, Head(stars), is_chronoturin), Tail(stars),
                is_chronoturin)

\* depth = z - camera_z, with camera_z = -1000
RefDepth(s) == s.z + 1000

RefBeyondNearPlane(s) == RefDepth(s) > 10

\* Both projected coordinates lie in [0, 1024):
\* 0 <= c * 800 / d + 512 < 1024, multiplied out by d > 0.
RefCoordOnScreen(c, d) == (-512) * d <= c * 800 /\ c * 800 < 512 * d

RefOnScreen(s) ==
    /\ RefCoordOnScreen(s.x, RefDepth(s))
    /\ RefCoordOnScreen(s.y, RefDepth(s))

\* trunc(c * 800 / d + 512) for a coordinate on the screen
RefCoord(c, d) == ((c * 800) \div d) + 512

RefPixel(s) == <<RefCoord(s.x, RefDepth(s)), RefCoord(s.y, RefDepth(s))>>

RefDrawn(s) == RefBeyondNearPlane(s) /\ RefOnScreen(s)

\* What a drawn star adds to the three channels.
RefContribution(s, is_chronoturin) ==
    LET active == s.active_flag > HALF
    IN  << (IF s.data_type < HALF THEN 200 ELSE 0)
             + (IF active /\ is_chronoturin THEN 50 ELSE 0),
           IF active THEN 150 ELSE 0,
           IF s.data_type < HALF THEN 0 ELSE 255 >>

\* The sum of channel c of the contributions of the stars drawn at pixel p.
RECURSIVE RefSum(_, _, _, _)
RefSum(stars, p, c, is_chronoturin) ==
    IF stars = <<>> THEN 0
    ELSE (IF RefDrawn(Head(stars)) /\ RefPixel(Head(stars)) = p
          THEN RefContribution(Head(stars), is_chronoturin)[c] ELSE 0)
         + RefSum(Tail(stars), p, c, is_chronoturin)

\* The image in which every channel is min(255, sum of the contributions).
RefImage(stars, is_chronoturin) ==
    [p \in {RefPixel(stars[i]) : i \in {j \in 1..Len(stars) : RefDrawn(stars[j])}}
        |-> <<Min(255, RefSum(stars, p, 1, is_chronoturin)),
              Min(255, RefSum(stars, p, 2, is_chronoturin)),
              Min(255, RefSum(stars, p, 3, is_chronoturin))>>]

\* The stars of a sequence in the order a permutation gives.
Permuted(stars, perm) == [i \in 1..Len(stars) |-> stars[perm[i]]]

Rasterizing == pc \in {"raster", "save"}

\* ------------------------------------------------------------ the claims

ChannelsInRange ==
    \A p \in DOMAIN img : \A c \in 1..3 : img[p][c] \in 0..255

ChannelsGrow ==
    Rasterizing /\ Rasterizing' =>
        \A p \in DOMAIN img : \A c \in 1..3 : GetPixel(img', p)[c] >= img[p][c]

\* C5: while and after a snapshot is rasterized every channel of every pixel
\* lies in 0..255, however many stars map to the pixel, and no channel value
\* ever decreases (an addition never wraps around).
C5_SaturatingAccumulation == []ChannelsInRange /\ [][ChannelsGrow]_vars

\* Two stars have been drawn on one pixel, and their red contributions,
\* which add up to more than 255, left the channel at 255.
C5_Witness ==
    /\ pc = "save"
    /\ \E p \in DOMAIN img :
          /\ RefSum(MappedStars, p, 1, IsChronoturin(pass)) > 255
          /\ img[p][1] = 255

\* C6: a star whose depth z - camera_z is at most 10 contributes to no
\* pixel: at every point of the rasterization the image is the one obtained
\* from the stars gone through so far with those stars left out.
C6_NearPlaneCulling ==
    Rasterizing =>
        img = Render(BlankImage, SelectSeq(Rasterized, RefBeyondNearPlane),
                     IsChronoturin(pass))

\* The loop has gone through a star of depth exactly 10 whose projection is
\* on the screen, and through a star that was drawn.
C6_Witness ==
    /\ pc = "save"
    /\ \E i \in 1..Len(MappedStars) :
          RefDepth(MappedStars[i]) = 10 /\ RefOnScreen(MappedStars[i])
    /\ img # BlankImage

ModeColorStep ==
    (pc = "raster" /\ star_idx' = star_idx + 1
       /\ Visible(CurrentStar) /\ OnScreen(CurrentStar)) =>
        LET s == CurrentStar
            old == GetPixel(img, PixelOf(s))
            new == GetPixel(img', PixelOf(s))
            base == IF s.data_type < HALF THEN 200 ELSE 0
        IN  IF s.active_flag > HALF
            THEN /\ new[2] = Min(255, old[2] + 150)
                 /\ new[1] = Min(255, old[1] + base
                                       + (IF IsChronoturin(pass) THEN 50 ELSE 0))
            ELSE /\ new[2] = old[2]
                 /\ new[1] = Min(255, old[1] + base)

\* C7: a drawn star with active_flag > 0.5 adds 150 to green in both modes
\* and 50 more to red in the Chronoturin pass only; in the Newtonian pass red
\* never gets the 50, and a star with active_flag <= 0.5 gets neither.
C7_ModeColor == [][ModeColorStep]_vars

\* In the Chronoturin pass an active star of category B was drawn alone on
\* its pixel: red 50, green 150, blue 255.
C7_Witness ==
    /\ pc = "save"
    /\ IsChronoturin(pass)
    /\ \E i \in 1..Len(MappedStars) :
          /\ MappedStars[i].active_flag > HALF
          /\ MappedStars[i].data_type = TYPE_B
          /\ PixelOf(MappedStars[i]) \in DOMAIN img
          /\ img[PixelOf(MappedStars[i])] = <<50, 150, 255>>

ProjectionStep ==
    (pc = "raster" /\ star_idx' = star_idx + 1
       /\ RefBeyondNearPlane(CurrentStar) /\ RefOnScreen(CurrentStar)) =>
        /\ DOMAIN img' = DOMAIN img \cup {RefPixel(CurrentStar)}
        /\ \A q \in DOMAIN img \ {RefPixel(CurrentStar)} : img'[q] = img[q]
        /\ (CurrentStar.x = 0 /\ CurrentStar.y = 0 /\ CurrentStar.z = 0) =>
               <<512, 512>> \in DOMAIN img'

\* C8: a star at (x, y, z) of depth d = z + 1000 > 10 whose projected
\* coordinates lie in [0, 1024) is drawn at the pixel
\* (trunc(x*800/d + 512), trunc(y*800/d + 512)) and at no other; the star at
\* (0, 0, 0) is drawn at (512, 512).
C8_Projection == [][ProjectionStep]_vars

\* A star at the origin was drawn at (512, 512), and the star at
\* (-640, 1, 0), of screen position (0, 512.8), at (0, 512).
C8_Witness ==
    /\ pc = "save"
    /\ \E i, j \in 1..Len(MappedStars) :
          /\ MappedStars[i].x = 0 /\ MappedStars[i].y = 0 /\ MappedStars[i].z = 0
          /\ MappedStars[j].x = -640 /\ MappedStars[j].y = 1 /\ MappedStars[j].z = 0
    /\ DOMAIN img = {<<512, 512>>, <<0, 512>>}

\* C9: the final image does not depend on the order the stars are drawn in:
\* it is the image drawn from any permutation of the snapshot, and each
\* channel of each pixel is min(255, sum of the contributions mapped to it).
C9_DrawOrder ==
    pc = "save" =>
        /\ img = RefImage(MappedStars, IsChronoturin(pass))
        /\ \A perm \in Permutations(1..Len(MappedStars)) :
              Render(BlankImage, Permuted(MappedStars, perm), IsChronoturin(pass))
                  = img

\* Two different stars were drawn on the same pixel and a channel saturated.
C9_Witness ==
    /\ pc = "save"
    /\ \E i, j \in 1..Len(MappedStars) :
          /\ MappedStars[i] # MappedStars[j]
          /\ RefDrawn(MappedStars[i]) /\ RefDrawn(MappedStars[j])
          /\ RefPixel(MappedStars[i]) = RefPixel(MappedStars[j])
          /\ \E c \in 1..3 :
                RefSum(MappedStars, RefPixel(MappedStars[i]), c,
                       IsChronoturin(pass)) > 255

\* -------------------------------------------------- claims on the loop

\* The CPU holds the mapped range and reads the stars out of it.
ReadingSnapshot == pc = "raster"

\* C1: whenever the CPU reads the snapshot of a frame, the GPU has executed
\* every command submitted so far: the queue is empty, the storage buffer
\* has gone through the SIM_STEPS_PER_FRAME dispatches of this frame and of
\* every earlier frame of the pass, and the readback buffer holds the copy
\* made after the last of them.
C1_ReadAfterGpuWork ==
    ReadingSnapshot =>
        /\ queue = <<>>
        /\ map_state = "mapped"
        /\ steps_applied = SIM_STEPS_PER_FRAME * (frame + 1)
        /\ steps_copied = steps_applied
        /\ readback_buffer = storage_buffer

\* The snapshot of the second frame of a pass is being read.
C1_Witness ==
    /\ ReadingSnapshot
    /\ frame = 1
    /\ star_idx > 1
    /\ steps_copied = 2 * SIM_STEPS_PER_FRAME

\* The progress line of a frame.
ProgressLine(p, f) == <<"frame", ModeName(p), f>>

InSeq(x, seq) == \E i \in 1..Len(seq) : seq[i] = x

SkippedFramesLeaveNothing ==
    \A sk \in skipped :
        /\ ~InSeq(Filename(FilePrefix(sk[1]), sk[2]), saved)
        /\ ~InSeq(ProgressLine(sk[1], sk[2]), stdout)

SkipStep ==
    (pc = "recv" /\ rx # "Ok") =>
        /\ saved' = saved
        /\ stdout' = stdout
        /\ stderr' = stderr
        /\ pc' = "for_frame"
        /\ pass' = pass
        /\ frame' = frame + 1
        /\ skipped' = skipped \cup {<<pass, frame>>}

AfterSkipStep ==
    (pc = "for_frame" /\ <<pass, frame - 1>> \in skipped) =>
        /\ saved' = saved /\ stdout' = stdout /\ stderr' = stderr
        /\ pc' # "panicked"
        /\ frame < FRAMES_PER_MODE =>
              pc' = "for_step" /\ pass' = pass /\ frame' = frame

\* C2: when the map callback reports an error, or is dropped without
\* reporting, the frame writes no file, prints no progress line and reports
\* no error, the program does not panic, and the loop goes on with the next
\* frame of the pass (after the last frame of the pass, with the end of the pass).
C2_FailedMapSkipsFrame ==
    /\ []SkippedFramesLeaveNothing
    /\ [][SkipStep]_vars
    /\ [][AfterSkipStep]_vars

\* Frame 0 of the first pass was skipped and frame 1 of it was saved.
C2_Witness ==
    /\ <<0, 0>> \in skipped
    /\ InSeq(Filename(FilePrefix(0), 1), saved)
    /\ stderr = <<>>

IsPrefix(a, b) == Len(a) <= Len(b) /\ SubSeq(b, 1, Len(a)) = a

\* What a frame does when its readback succeeds, and when it does not.
SkippedFrameOps ==
    [i \in 1..SIM_STEPS_PER_FRAME |-> "dispatch"] \o <<"copy", "map", "wait">>

SavedFrameOps == SkippedFrameOps \o <<"render", "save">>

InFrame == pc \in {"for_step", "map", "poll", "recv", "raster", "save"}

BetweenFrames == pc \in {"start", "device", "for_pass", "for_frame", "done"}

IsStartLine(line) == line[1] = "start"

\* C3: the run is a prefix of the schedule pass 0 (Newtonian) then pass 1
\* (Chronoturin), FRAMES_PER_MODE frames each in increasing index; a frame is
\* SIM_STEPS_PER_FRAME dispatch submissions, then one copy, one map request
\* and one wait, then at most one render and save; nothing of a frame is
\* pending or mapped when the next frame or pass begins; a run that
\* completes has begun all NUM_PASSES * FRAMES_PER_MODE frames.
C3_PassFrameSchedule ==
    /\ pass \in 0..NUM_PASSES /\ frame \in 0..FRAMES_PER_MODE
    /\ step \in 0..SIM_STEPS_PER_FRAME
    /\ \A i \in 1..Len(frames_begun) :
          frames_begun[i] = <<(i - 1) \div FRAMES_PER_MODE,
                              (i - 1) % FRAMES_PER_MODE>>
    /\ Len(frames_begun) <= NUM_PASSES * FRAMES_PER_MODE
    /\ pc = "done" => Len(frames_begun) = NUM_PASSES * FRAMES_PER_MODE
    /\ InFrame => frames_begun[Len(frames_begun)] = <<pass, frame>>
    /\ IsPrefix(ops, SavedFrameOps)
    /\ (BetweenFrames /\ frames_begun # <<>>) =>
          ops \in {SkippedFrameOps, SavedFrameOps}
    /\ \A i \in 1..Len(queue) :
          InFrame /\ queue[i].pass = pass /\ queue[i].frame = frame
    /\ BetweenFrames => img = BlankImage /\ map_state # "mapped"
    /\ IsPrefix(SelectSeq(stdout, IsStartLine),
                << <<"start", 1, "NEWTONIAN">>, <<"start", 2, "CHRONOTURIN">> >>)
    /\ pc = "done" => Len(SelectSeq(stdout, IsStartLine)) = NUM_PASSES

\* The run completed, with frames saved and frames skipped on the way.
C3_Witness ==
    /\ pc = "done"
    /\ Len(frames_begun) = NUM_PASSES * FRAMES_PER_MODE
    /\ skipped # {}
    /\ saved # <<>>

\* The names of one image per frame per pass, in the order of the run.
AllFilenames ==
    [i \in 1..(NUM_PASSES * FRAMES_PER_MODE) |->
        Filename(FilePrefix((i - 1) \div FRAMES_PER_MODE),
                 (i - 1) % FRAMES_PER_MODE)]

\* C4: a run that reaches "Simulation Complete" has written exactly one
\* image per frame per pass, newton_000.. then chrono_000.., each once.
C4_OneImagePerFrame == pc = "done" => saved = AllFilenames

\* C10: within a pass the storage buffer and every snapshot hold NUM_STARS
\* records whose category and mass are, index by index, those of
\* initial_data; and the storage buffer changes only when the pass creates
\* it and when the GPU executes a dispatch.
SameIdentity(stars) ==
    /\ Len(stars) = NUM_STARS
    /\ \A i \in 1..NUM_STARS :
          /\ stars[i].data_type = initial_data[i].data_type
          /\ stars[i].mass = initial_data[i].mass

IdentityKept ==
    /\ InFrame => SameIdentity(storage_buffer)
    /\ ReadingSnapshot => SameIdentity(MappedStars)

OnlyKernelWrites ==
    storage_buffer' # storage_buffer =>
        \/ pc = "for_pass" /\ pc' = "for_frame"
        \/ /\ queue # <<>> /\ Head(queue).kind = "dispatch"
           /\ queue' = Tail(queue)
           /\ UNCHANGED cpuVars

C10_ParticleIdentity == []IdentityKept /\ [][OnlyKernelWrites]_vars

\* The snapshot of the last frame of a pass is read; its stars are of
\* different categories and one of them has been moved by the kernel.
C10_Witness ==
    /\ ReadingSnapshot
    /\ frame = FRAMES_PER_MODE - 1
    /\ \E i, j \in 1..NUM_STARS :
          MappedStars[i].data_type # MappedStars[j].data_type
    /\ \E i \in 1..NUM_STARS : MappedStars[i].z # initial_data[i].z

\* ------------------------------------------------ claims on the passes

\* A pass has just been set up and none of its frames has begun.
PassJustBegun == pc = "for_frame" /\ frame = 0

RecordIsChronoturin == uniform_buffer.dilation_mode > HALF

ModeRecord ==
    InFrame =>
        /\ uniform_buffer.time_seed = 0
        /\ pass = 0 => uniform_buffer.dilation_mode = 0 * HALF
        /\ pass = 1 => uniform_buffer.dilation_mode = 2 * HALF

ModeStep ==
    /\ (pc = "raster" /\ star_idx' = star_idx + 1) =>
          img' = DrawStar(img, CurrentStar, RecordIsChronoturin)
    /\ (pc = "save" /\ pc' = "for_frame") =>
          saved' = Append(saved,
                          Filename(IF RecordIsChronoturin THEN "chrono"
                                   ELSE "newton", frame))
    /\ uniform_buffer' # uniform_buffer =>
          pc = "for_pass" /\ pc' = "for_frame"

\* C12: in every frame of a pass the parameter record the kernel reads
\* holds time_seed 0 and the mode of the pass (0.0 in pass 0, 1.0 in pass 1),
\* the projector draws with that mode and the file is named with its prefix
\* (newton for 0.0, chrono for 1.0); the record changes only when a pass
\* creates it.
C12_ModeConsistent == []ModeRecord /\ [][ModeStep]_vars

\* In the Chronoturin pass, after a Newtonian frame and a Chronoturin frame
\* were saved, an active star has been drawn.
C12_Witness ==
    /\ pc = "raster"
    /\ pass = 1
    /\ InSeq(Filename("newton", 0), saved)
    /\ InSeq(Filename("chrono", 0), saved)
    /\ \E p \in DOMAIN img : img[p][2] > 0

\* -------------------------------------------- the pixels of an image
NonBlack(image) == {p \in DOMAIN image : image[p] # <<0, 0, 0>>}

\* The pixels the stars of a sequence that are beyond the near plane and
\* project into [0, 1024) x [0, 1024) are mapped to.
RefPixels(stars) ==
    {RefPixel(stars[i]) : i \in {j \in 1..Len(stars) : RefDrawn(stars[j])}}

\* Two stars on distinct pixels of the screen, one behind the near plane and
\* one off the screen.
FourStars ==
    << Star(0, 0, 0, 0, 0, 0, 1, TYPE_A, 0, 2 * HALF),
       Star(100, 50, 0, 0, 0, 0, 1, TYPE_B, 0, 0 * HALF),
       Star(0, 0, -995, 0, 0, 0, 1, TYPE_A, 0, 2 * HALF),
       Star(0, 700, 0, 0, 0, 0, 1, TYPE_B, 0, 2 * HALF) >>

\* C13: at every point of the rasterization the non-black pixels are exactly
\* the pixels the stars gone through so far with depth > 10 and a projection
\* inside [0, 1024) x [0, 1024) are mapped to; no pixel outside the image is
\* ever accessed; and the four stars above leave exactly two non-black
\* pixels, of the colours of their category and active flag.
C13_TouchedPixels ==
    /\ Rasterizing =>
          /\ NonBlack(img) = RefPixels(Rasterized)
          /\ DOMAIN img = NonBlack(img)
          /\ \A p \in DOMAIN img : InBounds(p)
    /\ Render(BlankImage, FourStars, FALSE)
          = (<<512, 512>> :> <<200, 150, 0>>) @@ (<<592, 552>> :> <<0, 0, 255>>)

\* A snapshot with a star that was drawn and a star beyond the near plane
\* that projects off the image has been rasterized: one pixel is not black.
C13_Witness ==
    /\ pc = "save"
    /\ \E i, j \in 1..Len(MappedStars) :
          /\ RefDrawn(MappedStars[i])
          /\ RefBeyondNearPlane(MappedStars[j]) /\ ~RefOnScreen(MappedStars[j])
    /\ Cardinality(NonBlack(img)) = 1

\* ------------------------------------------------ the build with S = 0
\* The program built with SIM_STEPS_PER_FRAME = 0 and FRAMES_PER_MODE = 1:
\* `for _ in 0..0` submits nothing, so a frame is copy, map, wait, render.
InitZeroSteps ==
    /\ pc = "start"
    /\ pass = 0 /\ frame = 0 /\ step = 0
    /\ initial_data = <<>>
    /\ storage_buffer = <<>>
    /\ uniform_buffer = GalaxyState(0, 0)
    /\ readback_buffer = <<>>
    /\ map_state = "unmapped"
    /\ queue = <<>>
    /\ rx = "empty"
    /\ img = BlankImage
    /\ star_idx = 1
    /\ saved = <<>>
    /\ stdout = <<>>
    /\ stderr = <<>>
    /\ steps_applied = 0
    /\ steps_copied = 0
    /\ frames_begun = <<>>
    /\ ops = <<>>
    /\ skipped = {}
    /\ rng = 0
    /\ rng_seed = 0
    /\ steps_per_frame = 0
    /\ frames_per_mode = 1
    /\ num_stars = NUM_STARS
    /\ workgroup_size = WORKGROUP_SIZE
    /\ invoked = <<>>

NextZeroSteps ==
    \/ RequestAdapter \/ NoAdapter \/ RequestDevice \/ NoDevice
    \/ BeginPass \/ Complete \/ BeginFrame \/ EndPass
    \/ SubmitCopy \/ MapAsync \/ Poll
    \/ RecvOk \/ RecvSkip \/ RasterStar \/ Unmap \/ Save \/ SaveFails
    \/ GpuExecute

ZeroStepSpec == InitZeroSteps /\ [][NextZeroSteps]_vars

\* C14: with no simulation step and one frame, the stars read back are
\* initial_data, unchanged and in the same order, and the image of the frame
\* is the image obtained by rasterizing initial_data directly.
C14_ZeroStepIdempotence ==
    /\ steps_applied = 0
    /\ ReadingSnapshot => MappedStars = initial_data
    /\ Rasterizing =>
          img = Render(BlankImage, SubSeq(initial_data, 1, star_idx - 1),
                       IsChronoturin(pass))

\* The frame of a pass without steps has been rendered from two different
\* stars, and its image is not blank.
C14_Witness ==
    /\ pc = "save"
    /\ steps_per_frame = 0
    /\ frames_begun # <<>>
    /\ initial_data[1] # initial_data[2]
    /\ img # BlankImage

\* -------------------------------------------- the readback buffer
Count(seq, x) == Cardinality({i \in 1..Len(seq) : seq[i] = x})

MapProtocolState ==
    /\ Count(ops, "map") <= 1
    /\ ReadingSnapshot => map_state = "mapped" /\ rx = "Ok"
    /\ map_state = "mapped" => rx = "Ok" /\ pc \in {"recv", "raster"}
    /\ map_state = "pending" => pc = "poll"

MapProtocolStep ==
    /\ (pc = "for_step" /\ pc' = "map") => map_state = "unmapped"
    /\ (pc = "map" /\ pc' = "poll") => map_state = "unmapped"
    /\ (pc = "save" /\ pc' = "for_frame") => map_state = "unmapped"

CpuNext ==
    \/ RequestAdapter \/ NoAdapter \/ RequestDevice \/ NoDevice
    \/ BeginPass \/ Complete \/ BeginFrame \/ EndPass
    \/ SubmitStep \/ SubmitCopy \/ MapAsync \/ Poll
    \/ RecvOk \/ RecvSkip \/ RasterStar \/ Unmap \/ Save \/ SaveFails

FairSpec == Spec /\ WF_vars(CpuNext) /\ WF_vars(GpuExecute)

\* run() is in device.poll(Maintain::Wait) and the GPU has work pending.
Blocked == pc = "poll" /\ queue # <<>>

BlockedStep ==
    Blocked => UNCHANGED <<pc, pass, frame, frames_begun, saved, stdout>>

\* "Simulation Complete." is printed after every frame of every pass.
RunComplete ==
    /\ pc = "done"
    /\ stdout # <<>>
    /\ stdout[Len(stdout)] = <<"complete">>
    /\ Len(frames_begun) = NUM_PASSES * frames_per_mode

\* C16 as stated: when the GPU completes everything submitted, the run
\* reaches "Simulation Complete".
C16_AlwaysCompletes == <>RunComplete

\* C16: while the GPU has work pending, run() stays in the wait of that
\* frame (no frame is begun, no image is saved, nothing is printed); and
\* when the GPU completes everything submitted, the run reaches
\* "Simulation Complete" after NUM_PASSES passes of all their frames unless
\* it has panicked (no adapter, no device, or an image that was not saved).
C16_UnconditionalWait ==
    [][BlockedStep]_vars /\ <>(pc = "panicked" \/ RunComplete)

C16_Witness ==
    /\ RunComplete
    /\ queue = <<>>
    /\ steps_applied = steps_per_frame * frames_per_mode
    /\ Len(saved) = NUM_PASSES * frames_per_mode

\* ------------------------------------------------------- the dispatch
\* The builds whose dispatch is checked: any number of stars up to
\* MAX_DISPATCH_STARS, workgroups of any size up to MAX_WORKGROUP_SIZE or of
\* WORKGROUP_SIZE, one frame of one step per pass.
InitDispatch ==
    /\ pc = "start"
    /\ pass = 0 /\ frame = 0 /\ step = 0
    /\ initial_data = <<>>
    /\ storage_buffer = <<>>
    /\ uniform_buffer = GalaxyState(0, 0)
    /\ readback_buffer = <<>>
    /\ map_state = "unmapped"
    /\ queue = <<>>
    /\ rx = "empty"
    /\ img = BlankImage
    /\ star_idx = 1
    /\ saved = <<>>
    /\ stdout = <<>>
    /\ stderr = <<>>
    /\ steps_applied = 0
    /\ steps_copied = 0
    /\ frames_begun = <<>>
    /\ ops = <<>>
    /\ skipped = {}
    /\ rng = 0
    /\ rng_seed = 0
    /\ steps_per_frame = 1
    /\ frames_per_mode = 1
    /\ num_stars \in 1..MAX_DISPATCH_STARS
    /\ workgroup_size \in (1..MAX_WORKGROUP_SIZE) \cup {WORKGROUP_SIZE}
    /\ invoked = <<>>

DispatchSpec == InitDispatch /\ [][Next]_vars

\* groups is the least number of workgroups of w invocations that has an
\* invocation for each of n stars.
IsCeil(groups, n, w) == groups * w >= n /\ (groups - 1) * w < n

\* C17: every dispatch submitted is of ceil(num_stars / workgroup_size)
\* workgroups; once it has executed, every star has had exactly one kernel
\* invocation; for 100000 stars and workgroups of 256 that is 391
\* workgroups, and NUM_STARS + WORKGROUP_SIZE - 1 is within the integers.
C17_DispatchCoversStars ==
    /\ \A i \in 1..Len(queue) :
          queue[i].kind = "dispatch" =>
              IsCeil(queue[i].workgroups, num_stars, workgroup_size)
    /\ steps_applied > 0 =>
          /\ Len(invoked) = num_stars
          /\ \A i \in 1..num_stars : invoked[i] = 1
    /\ Workgroups(NUM_STARS_SOURCE, WORKGROUP_SIZE) = 391
    /\ IsCeil(391, NUM_STARS_SOURCE, WORKGROUP_SIZE)
    /\ NUM_STARS_SOURCE + WORKGROUP_SIZE - 1 <= INT_MAX

\* A dispatch of two workgroups, the second one with an invocation to spare,
\* has executed.
C17_Witness ==
    /\ steps_applied = 1
    /\ num_stars = 3
    /\ workgroup_size = 2
    /\ invoked = <<1, 1, 1>>
    /\ storage_buffer # initial_data

\* ------------------------------------------------ frames that are skipped
\* One dispatch executed on the stars, with the kernel working as k.
KernelStep(stars, k) ==
    [i \in 1..Len(stars) |-> Kernel(stars[i], uniform_buffer, k)]

\* The star arrays that n dispatches can leave of the array `stars`.
RECURSIVE StatesAfter(_, _)
StatesAfter(stars, n) ==
    IF n = 0 THEN {stars}
    ELSE { KernelStep(st, k) : st \in StatesAfter(stars, n - 1),
                               k \in KernelChoices }

SnapshotHasAllSteps ==
    ReadingSnapshot =>
        /\ steps_copied = steps_per_frame * (frame + 1)
        /\ MappedStars \in
               StatesAfter(initial_data, steps_per_frame * (frame + 1))

SavedUnderOwnIndex ==
    saved' # saved =>
        /\ saved' = Append(saved, Filename(FilePrefix(pass), frame))
        /\ frames_begun[Len(frames_begun)] = <<pass, frame>>
        /\ Len(frames_begun) =
               pass * frames_per_mode + frame + 1

\* C18: the snapshot read in frame f of a pass is the initial data of the
\* pass after exactly steps_per_frame * (f + 1) dispatches, whether or not
\* earlier frames of the pass were skipped; and an image is saved under the
\* index of the frame it was rendered in, which is the number of frames the
\* pass has begun before it.
C18_SkippedFrameAdvances == []SnapshotHasAllSteps /\ [][SavedUnderOwnIndex]_vars

\* The first frame of a pass was skipped and the second has been saved, as
\* frame 1, from a snapshot of twice steps_per_frame steps.
C18_Witness ==
    /\ <<0, 0>> \in skipped
    /\ pass = 0
    /\ saved = <<Filename(FilePrefix(0), 1)>>
    /\ steps_copied = 2 * steps_per_frame
    /\ steps_per_frame > 0

\* ------------------------------------------------------- fatal failures
AcquisitionFailed == stderr # <<>> /\ stderr[1] \in {"No GPU", "No Device"}

AbortedState ==
    /\ stderr # <<>> => pc = "panicked" /\ Len(stderr) = 1
    /\ AcquisitionFailed =>
          /\ frames_begun = <<>>
          /\ saved = <<>>
          /\ initial_data = <<>>
          /\ \A i \in 1..Len(stdout) : ~IsStartLine(stdout[i])

AbortedStep ==
    /\ stderr = <<>>
    /\ IsPrefix(saved, saved')

\* C19: once a panic message is out, run has stopped and nothing happens any
\* more (no frame is begun, no pass is started, no image is written or
\* changed); if it was the adapter or the device that failed, no pass was
\* started and no image written; and the images written are only ever
\* added to.
C19_FatalFailureAborts == []AbortedState /\ [][AbortedStep]_vars

\* Saving the second image of the first pass failed, after the first was
\* written.
C19_Witness ==
    /\ pc = "panicked"
    /\ stderr = <<"save">>
    /\ pass = 0
    /\ frame = 1
    /\ saved = <<Filename(FilePrefix(0), 0)>>

====
